---- MODULE Spec2Model ----
(***************************************************************************)
(* Model of the creator settlement report generator (src/app.py; the older *)
(* variant src/app_old5.py is referred to where it differs).               *)
(*                                                                         *)
(* A run is: the operator uploads the Directory (creator_info.xlsx) and    *)
(* the Dataset (creator_statistics.xlsx), main() validates the declared    *)
(* summary row against the data rows, and process_data() walks the         *)
(* Directory creator by creator.                                           *)
(*                                                                         *)
(* Numbers.  Every number of the program (a pandas cell, a Python int or   *)
(* float) is modelled as an integer count of 1/One, with                   *)
(* One == Scale * RateDen: a dataset cell is a multiple of 1/Scale, a      *)
(* commission rate is a multiple of 1/RateDen, so every product            *)
(* value * rate the program forms is exact in these units.  NaN is the     *)
(* missing cell.                                                           *)
(***************************************************************************)
EXTENDS Integers, Sequences, FiniteSets

\* ------------------------------------------------------------ bounds

NumCreators == 2      \* creators in the Directory
MaxRows == 3          \* data rows of a small dataset
NumProfiles == 4      \* distinct (title, views, revenue) cell triples of a row
Scale == 2            \* dataset cells are multiples of 1/Scale
RateDen == 4          \* commission rates are multiples of 1/RateDen
MaxDeclared == 3      \* largest declared summary value, in whole units
Extra == 2            \* rows of a large dataset beyond TopN
MaxLen == 3           \* tokens of a string handed to clean_numeric_value
MaxWhole == 2         \* largest number handed to clean_numeric_value, in whole units

\* ------------------------------------------------- program constants

TopN == 50            \* creator_data.nlargest(50, ...)
NaN == -1             \* pd.isna(value): the missing cell

One == Scale * RateDen

\* ------------------------------------------------------------- state

VARIABLES
    input_df,             \* the uploaded Dataset: row 1 is the summary row
    creator_info,         \* the Directory, in file order
    send_email,           \* process_data argument
    email_user,           \* TRUE: email_user and email_password are both set
    pc,                   \* position in main / process_data
    views_match,          \* main: declared views against data rows
    revenue_match,        \* main: declared revenue against data rows
    total_stats,          \* DataValidator.total_stats of the uploaded Dataset
    idx,                  \* enumerate index of the creator loop
    creator_data,         \* rows of the current creator
    totals,               \* total_views / total_revenue_before / _after
    filtered_data,        \* the current creator's selection and total row
    html_content,         \* "none" before rendering, "html", or "None"
    reports_data,         \* dict, as a set of [name, content]: name is the
                          \* creator id of "<id>_report.html", content the
                          \* payload the document was rendered from
    excel_files,          \* dict, as a set of [name, content]: name is the
                          \* creator id of "<id>.xlsx", content the frame
    processed_full_data,  \* rows carried forward to the reconciliation
    failed_creators,      \* failed creator ids, in append order
    visited,              \* creator ids in the order the loop body was entered
    progress,             \* last progress written: <<done, total>>
    validation,           \* the creator comparison shown / exported, if made
    zip_data,             \* the bundle handed to the download button, if made
    comparison_df,        \* the dataset-level comparison of original and
                          \* processed totals, if shown
    errors,               \* the error messages written, in order: [kind, creator]
    failed_status,        \* the failed list written after the loop, if written
    assigned,             \* main: the local names assigned so far in this script run
    argument,             \* clean_numeric_value: the argument of the call
    result                \* clean_numeric_value: how the call ended, if it was made

vars == <<input_df, creator_info, send_email, email_user, pc,
          views_match, revenue_match, total_stats, idx, creator_data, totals, filtered_data,
          html_content,
          reports_data, excel_files, processed_full_data, failed_creators,
          visited, progress, validation, zip_data, comparison_df, errors, failed_status,
          assigned, argument, result>>

\* ------------------------------------------------------- arithmetic

Abs(x) == IF x < 0 THEN -x ELSE x

\* int(float(value)): truncation toward zero to a whole number.
Trunc(x) == IF x >= 0 THEN (x \div One) * One ELSE -(((-x) \div One) * One)

\* value * commission_rate, the rate being the numerator of k/RateDen;
\* a product with a missing operand is NaN.
Times(x, rate) == IF x = NaN \/ rate = NaN THEN NaN ELSE (x * rate) \div RateDen

\* Python's round(x) for x >= 0: to the nearest whole number, a half to the
\* even neighbour.
Round(x) ==
    LET f == (x \div One) * One
        r == x - f
    IN  IF 2 * r < One THEN f
        ELSE IF 2 * r > One THEN f + One
        ELSE IF (x \div One) % 2 = 0 THEN f ELSE f + One

\* The smallest whole number that is not below x >= 0.
Ceil(x) == IF x % One = 0 THEN x ELSE ((x \div One) + 1) * One

\* clean_numeric_value(value)
clean_numeric_value(value) == IF value = NaN THEN 0 ELSE Trunc(value)

\* A Python object handed to clean_numeric_value: a missing value (NaN, None),
\* a finite number (num, in units of 1/One), an infinite float (num its
\* sign), a string (text, as its tokens) or any other object.
Object(kind, num, text) == [kind |-> kind, num |-> num, text |-> text]
NoValue == Object("nan", 0, <<>>)
NoResult == [called |-> FALSE, raised |-> "none", value |-> 0]

Digits == {"1", "5"}
Digit(t) == IF t = "1" THEN 1 ELSE 5

\* value.replace(',', '')
replace_commas(text) == SelectSeq(text, LAMBDA t : t # ",")

\* str.strip(), as float() does to its argument
RECURSIVE strip(_)
strip(text) ==
    IF text = <<>> THEN <<>>
    ELSE IF Head(text) = " " THEN strip(Tail(text))
    ELSE IF text[Len(text)] = " " THEN strip(SubSeq(text, 1, Len(text) - 1))
    ELSE text

\* The number a run of decimal digits denotes.
RECURSIVE Decimal(_)
Decimal(ds) ==
    IF ds = <<>> THEN 0
    ELSE 10 * Decimal(SubSeq(ds, 1, Len(ds) - 1)) + Digit(ds[Len(ds)])

\* float(text): an optional sign, then "inf" or digits with at most one
\* point and at least one digit; anything else is a ValueError.  Of a finite
\* value only the sign and the whole part are kept (whole), which is all
\* that int() reads.
float_str(text) ==
    LET t == strip(text)
        neg == t # <<>> /\ Head(t) = "-"
        body == IF neg THEN Tail(t) ELSE t
        points == {i \in 1..Len(body) : body[i] = "."}
        split == IF points = {} THEN Len(body) + 1 ELSE CHOOSE i \in points : TRUE
    IN  IF body = <<"inf">>
        THEN [error |-> "none", inf |-> TRUE, neg |-> neg, whole |-> 0]
        ELSE IF /\ \A i \in 1..Len(body) : body[i] \in Digits \cup {"."}
                /\ Cardinality(points) <= 1
                /\ \E i \in 1..Len(body) : body[i] \in Digits
             THEN [error |-> "none", inf |-> FALSE, neg |-> neg,
                   whole |-> Decimal(SubSeq(body, 1, split - 1)) * One]
             ELSE [error |-> "ValueError", inf |-> FALSE, neg |-> FALSE, whole |-> 0]

\* The body of clean_numeric_value for any argument: the value returned, or
\* the exception that leaves the function.
clean_numeric_value_call(v) ==
    IF v.kind = "nan" THEN [called |-> TRUE, raised |-> "none", value |-> 0]
    ELSE IF v.kind = "object"
         THEN [called |-> TRUE, raised |-> "none", value |-> 0]
    ELSE IF v.kind = "inf"
         THEN [called |-> TRUE, raised |-> "OverflowError", value |-> 0]
    ELSE IF v.kind = "float"
         THEN [called |-> TRUE, raised |-> "none", value |-> clean_numeric_value(v.num)]
    ELSE LET f == float_str(replace_commas(v.text)) IN
         IF f.error # "none" THEN [called |-> TRUE, raised |-> "none", value |-> 0]
         ELSE IF f.inf THEN [called |-> TRUE, raised |-> "OverflowError", value |-> 0]
         ELSE [called |-> TRUE, raised |-> "none",
               value |-> IF f.neg THEN -f.whole ELSE f.whole]

\* pandas Series.fillna(0)
fillna(value) == IF value = NaN THEN 0 ELSE value

RECURSIVE SumSeq(_)
\* pandas Series.sum(): missing cells are skipped, the empty sum is 0.
SumSeq(s) ==
    IF s = <<>> THEN 0
    ELSE (IF Head(s) = NaN THEN 0 ELSE Head(s)) + SumSeq(Tail(s))

Column(df, col) == [i \in 1..Len(df) |-> df[i][col]]

\* df[df[col] == value]: the rows that compare equal, in frame order.
RECURSIVE WhereId(_, _)
WhereId(df, creator_id) ==
    IF df = <<>> THEN <<>>
    ELSE IF Head(df).id = creator_id
         THEN <<Head(df)>> \o WhereId(Tail(df), creator_id)
         ELSE WhereId(Tail(df), creator_id)

\* ------------------------------------------------------- Directory

\* CreatorInfoHandler.get_all_creator_ids
get_all_creator_ids(info) == [i \in 1..Len(info) |-> info[i].id]

InDirectory(info, creator_id) == \E i \in 1..Len(info) : info[i].id = creator_id

\* CreatorInfoHandler.get_commission_rate (a KeyError when the id is absent:
\* callers guard with InDirectory)
get_commission_rate(info, creator_id) ==
    info[CHOOSE i \in 1..Len(info) : info[i].id = creator_id].percent

\* CreatorInfoHandler.get_email
get_email(info, creator_id) ==
    info[CHOOSE i \in 1..Len(info) : info[i].id = creator_id].email

\* ------------------------------------------------ the uploaded files
\* A row of the Dataset: idx is its pandas index label (its position in the
\* file, the summary row being 0), id the creator id (0 is a creator that is
\* not in the Directory, NaN a blank cell), title "v" or "nan" (blank).

ProfileTitle(k) == IF k = 3 THEN "nan" ELSE "v"
ProfileViews(k) == IF k = 0 THEN NaN ELSE (k \div 2) * One
ProfileRev(k) == IF k = 0 THEN NaN ELSE k * (One \div Scale)

DataRow(i, creator_id, k) ==
    [idx |-> i, id |-> creator_id, title |-> ProfileTitle(k),
     views |-> ProfileViews(k), rev |-> ProfileRev(k)]

SummaryRow(creator_id, v, r) ==
    [idx |-> 0, id |-> creator_id, title |-> "nan", views |-> v, rev |-> r]

\* A summary row that declares exactly what the data rows add up to.
ExactSummary(rows) ==
    SummaryRow(NaN, SumSeq(Column(rows, "views")), SumSeq(Column(rows, "rev")))

SeqsUpTo(S, n) == UNION {[1..k -> S] : k \in 0..n}

\* The Directory: creators 1..NumCreators in file order or reversed, rates
\* base/RateDen, (base+1)/RateDen, ... (a NaN base leaves creator 1 without
\* a rate), and creator noEmail, if any, with an empty contact address.
Directory(reversed, base, noEmail) ==
    [i \in 1..NumCreators |->
        LET c == IF reversed THEN NumCreators + 1 - i ELSE i IN
        [id |-> c,
         percent |-> IF base = NaN
                     THEN (IF c = 1 THEN NaN ELSE (c - 1) % (RateDen + 1))
                     ELSE (base + c - 1) % (RateDen + 1),
         email |-> IF c = noEmail THEN "" ELSE "addr"]]

Scenario(df, info, send, creds) ==
    [df |-> df, info |-> info, send |-> send, creds |-> creds]

\* Datasets whose rows vary in the creator they belong to.
FamIds ==
    { Scenario(<<ExactSummary(rows)>> \o rows, Directory(rev, 1, e[3]), e[1], e[2]) :
        rows \in { [i \in 1..Len(ids) |-> DataRow(i, ids[i], 1 + (i % (NumProfiles - 1)))] :
                     ids \in SeqsUpTo(0..NumCreators, MaxRows) },
        rev \in BOOLEAN,
        e \in { <<FALSE, FALSE, 0>>, <<TRUE, FALSE, 0>>,
                <<TRUE, TRUE, 0>>, <<TRUE, TRUE, 1>> } }

\* Datasets of creator 1 whose cells vary, under every commission rate.
FamVals ==
    { Scenario(<<ExactSummary(rows)>> \o rows, Directory(FALSE, base, 0), FALSE, FALSE) :
        rows \in { [i \in 1..Len(ks) |-> DataRow(i, 1, ks[i])] :
                     ks \in SeqsUpTo(0..(NumProfiles - 1), MaxRows) },
        base \in {NaN} \cup 0..RateDen }

\* One dataset under every summary row: its creator id and declared values.
FamSummary ==
    { Scenario(<<SummaryRow(sid, v, r)>> \o
                 <<DataRow(1, 1, 2), DataRow(2, NumCreators, 3)>>,
               Directory(FALSE, 2, 0), FALSE, FALSE) :
        sid \in {NaN} \cup 0..NumCreators,
        v \in {NaN} \cup {k * One : k \in 0..MaxDeclared},
        r \in {NaN} \cup {k * (One \div Scale) : k \in 0..(MaxDeclared * Scale)} }

\* Creator 1 with TopN rows or more; the views are all distinct (spread 0)
\* or repeat with period 3.
LargeRow(i, spread) ==
    [idx |-> i, id |-> 1, title |-> IF i % 7 = 0 THEN "nan" ELSE "v",
     views |-> (IF spread = 0 THEN i ELSE i % 3) * One,
     rev |-> (i % (Scale + 1)) * (One \div Scale)]

FamLarge ==
    { Scenario(<<ExactSummary(rows)>> \o rows, Directory(FALSE, 3, 0), FALSE, FALSE) :
        rows \in { [i \in 1..(TopN + k[1]) |-> LargeRow(i, k[2])] :
                     k \in ((0..Extra) \X {0}) \cup ((1..Extra) \X {1}) } }

Scenarios == FamIds \cup FamVals \cup FamSummary \cup FamLarge

\* ------------------------------------------------------ dictionaries

Keys(d) == {e.name : e \in d}
Get(d, k) == (CHOOSE e \in d : e.name = k).content
\* d[k] = v
Put(d, k, v) == {e \in d : e.name # k} \cup {[name |-> k, content |-> v]}

\* ----------------------------------------------------- DataValidator

summary_row(original_df) == original_df[1]
data_rows(original_df) == Tail(original_df)

total_views_data(original_df) == SumSeq(Column(data_rows(original_df), "views"))
total_revenue_data(original_df) == SumSeq(Column(data_rows(original_df), "rev"))

\* Faulty variant: the tolerance includes a difference of exactly 1.
WithinOne_Inclusive(a, b) == a # NaN /\ b # NaN /\ Abs(a - b) <= One

\* abs(a - b) < 1; a comparison with a missing value is False.
WithinOne(a, b) == a # NaN /\ b # NaN /\ Abs(a - b) < One

\* Faulty variant: every data row is counted.
creator_count_Rows(rows) == Len(rows)

\* len(data_rows[id].unique()): the number of distinct values of the id column
\* (unique() keeps a blank id as one value).
creator_count(rows) == Cardinality({rows[i].id : i \in 1..Len(rows)})

\* data_rows.groupby(id).agg(sum): one entry per creator id of the data rows
\* (rows with a blank id form no group).
_calculate_creator_stats(rows) ==
    [c \in {rows[i].id : i \in 1..Len(rows)} \ {NaN} |->
        [views |-> SumSeq(Column(WhereId(rows, c), "views")),
         rev |-> SumSeq(Column(WhereId(rows, c), "rev"))]]

\* self.commission_rates.get(creator_id, 0)
commission_rates_get(info, creator_id) ==
    IF InDirectory(info, creator_id) THEN get_commission_rate(info, creator_id) ELSE 0

\* sum(revenue * rate ...) over the groups: NaN as soon as one product is NaN.
RECURSIVE SumProducts(_, _, _)
SumProducts(stats, info, S) ==
    IF S = {} THEN 0
    ELSE LET c == CHOOSE x \in S : TRUE
             product == Times(stats[c].rev, commission_rates_get(info, c))
             rest == SumProducts(stats, info, S \ {c})
         IN  IF product = NaN \/ rest = NaN THEN NaN ELSE product + rest

\* DataValidator._calculate_total_stats
_calculate_total_stats(original_df, info) ==
    LET creator_revenues == _calculate_creator_stats(data_rows(original_df))
    IN  [creator_count |-> creator_count(data_rows(original_df)),
         total_views_summary |-> summary_row(original_df).views,
         total_revenue_summary |-> summary_row(original_df).rev,
         total_views_data |-> total_views_data(original_df),
         total_revenue_data |-> total_revenue_data(original_df),
         total_revenue_after |->
             SumProducts(creator_revenues, info, DOMAIN creator_revenues)]

\* DataValidator.compare_with_processed(processed_df), the creator_count entry
compare_with_processed(original_df, processed_df) ==
    [original |-> creator_count(data_rows(original_df)),
     processed |-> creator_count(processed_df),
     match |-> creator_count(data_rows(original_df)) = creator_count(processed_df)]

\* DataValidator.compare_creator_stats(processed_df): both sides of the merge
\* are computed from self.data_rows.
compare_creator_stats(original_df, processed_df) ==
    LET creator_stats == _calculate_creator_stats(data_rows(original_df))
        processed_creator_stats == _calculate_creator_stats(data_rows(original_df))
    IN  [c \in (DOMAIN creator_stats) \cap (DOMAIN processed_creator_stats) |->
            [views_original |-> creator_stats[c].views,
             views_processed |-> processed_creator_stats[c].views,
             views_match |-> WithinOne(creator_stats[c].views,
                                       processed_creator_stats[c].views),
             rev_original |-> creator_stats[c].rev,
             rev_processed |-> processed_creator_stats[c].rev,
             revenue_match |-> WithinOne(creator_stats[c].rev,
                                         processed_creator_stats[c].rev)]]

\* ---------------------------------------------------------- Selector

MaxViewsOf(df, S) == CHOOSE m \in {df[i].views : i \in S} :
                        \A i \in S : df[i].views <= m

\* The positions of df in descending order of views, rows of equal views in
\* frame order: a stable descending sort.
RECURSIVE StableOrder(_, _)
StableOrder(df, S) ==
    IF S = {} THEN <<>>
    ELSE LET m == MaxViewsOf(df, S)
             i == CHOOSE j \in S : df[j].views = m /\
                     \A k \in S : df[k].views = m => j <= k
         IN  <<i>> \o StableOrder(df, S \ {i})

\* Every arrangement of the positions of df in descending order of views:
\* rows of equal views in any order.
RECURSIVE DescendingOrders(_, _)
DescendingOrders(df, S) ==
    IF S = {} THEN {<<>>}
    ELSE LET m == MaxViewsOf(df, S) IN
         UNION { { <<i>> \o t : t \in DescendingOrders(df, S \ {i}) } :
                 i \in {j \in S : df[j].views = m} }

\* The outcomes of df.nlargest(n, views) (keep = "first").  With n < len(df)
\* pandas selects the n largest with a merge sort of the candidates, the
\* first occurrences winning.  With n >= len(df) it returns
\* df.sort_values(views, ascending=False).head(n), whose default sort kind
\* (quicksort) is not stable: the order among rows of equal views is whatever
\* the numpy build produces.
nlargest(df, n) ==
    IF n >= Len(df)
    THEN { [k \in 1..Len(df) |-> df[o[k]]] : o \in DescendingOrders(df, 1..Len(df)) }
    ELSE LET o == StableOrder(df, 1..Len(df)) IN { [k \in 1..n |-> df[o[k]]] }

\* ------------------------------------------------- Report Assembler

\* Faulty variant: every row becomes a line item, titled or not.
create_video_data_All(df) ==
    [k \in 1..Len(df) |->
        [idx |-> df[k].idx,
         title |-> df[k].title,
         views |-> clean_numeric_value(df[k].views),
         revenueBefore |-> clean_numeric_value(df[k].rev),
         revenueAfter |-> clean_numeric_value(df[k].after)]]

\* create_video_data(df): the titled rows, their numbers coerced.
RECURSIVE create_video_data(_)
create_video_data(df) ==
    IF df = <<>> THEN <<>>
    ELSE IF Head(df).title = "nan"
         THEN create_video_data(Tail(df))
         ELSE <<[idx |-> Head(df).idx,
                 title |-> Head(df).title,
                 views |-> clean_numeric_value(Head(df).views),
                 revenueBefore |-> clean_numeric_value(Head(df).rev),
                 revenueAfter |-> clean_numeric_value(Head(df).after)]>>
              \o create_video_data(Tail(df))

\* ------------------------------------------------------------- Init

NoStats == [creator_count |-> 0, total_views_summary |-> 0,
            total_revenue_summary |-> 0, total_views_data |-> 0,
            total_revenue_data |-> 0, total_revenue_after |-> 0]
NoComparison == [shown |-> FALSE, views_match |-> FALSE, revenue_match |-> FALSE]
NotWritten == [written |-> FALSE, failed |-> <<>>]
NoTotals == [views |-> 0, before |-> 0, after |-> 0]
NoValidation == [made |-> FALSE, rows |-> <<>>]
NoZip == [made |-> FALSE, reports |-> {}, excel |-> {}, validation |-> FALSE]

Init ==
    /\ \E sc \in Scenarios :
          /\ input_df = sc.df
          /\ creator_info = sc.info
          /\ send_email = sc.send
          /\ email_user = sc.creds
    /\ pc = "upload"
    /\ views_match = FALSE
    /\ revenue_match = FALSE
    /\ total_stats = NoStats
    /\ idx = 0
    /\ creator_data = <<>>
    /\ totals = NoTotals
    /\ filtered_data = <<>>
    /\ html_content = "none"
    /\ reports_data = {}
    /\ excel_files = {}
    /\ processed_full_data = <<>>
    /\ failed_creators = <<>>
    /\ visited = <<>>
    /\ progress = <<0, 0>>
    /\ validation = NoValidation
    /\ zip_data = NoZip
    /\ comparison_df = NoComparison
    /\ errors = <<>>
    /\ failed_status = NotWritten
    /\ assigned = {}
    /\ argument = NoValue
    /\ result = NoResult

inputs == <<input_df, creator_info, send_email, email_user>>
flags == <<views_match, revenue_match, total_stats, assigned>>
coerced == <<argument, result>>
locals == <<creator_data, totals, filtered_data, html_content>>
outputs == <<reports_data, excel_files, processed_full_data, failed_creators>>
final == <<validation, zip_data, comparison_df>>
shown == <<errors, failed_status>>

\* An error message is written.
Error(kind, creator) == errors' = Append(errors, [kind |-> kind, creator |-> creator])

\* ------------------------------------------------------------- main

\* main: both files are uploaded; the declared summary row is compared with
\* the totals of the data rows.
Validate ==
    /\ pc = "upload"
    /\ views_match' = WithinOne(summary_row(input_df).views, total_views_data(input_df))
    /\ revenue_match' = WithinOne(summary_row(input_df).rev, total_revenue_data(input_df))
    /\ total_stats' = _calculate_total_stats(input_df, creator_info)
    /\ assigned' = assigned \cup {"creator_info_handler", "statistics_df", "validator",
                                  "start_date", "end_date"}
    /\ pc' = "validated"
    /\ UNCHANGED <<coerced, inputs, idx, locals, outputs, visited, progress, final, shown>>

\* ----------------------------------------------------- process_data

total_creators == Len(get_all_creator_ids(creator_info))
creator_id == get_all_creator_ids(creator_info)[idx + 1]

\* process_data is entered, called with all its arguments bound: its
\* accumulators are created empty.
Start ==
    /\ pc = "validated"
    /\ reports_data' = {}
    /\ excel_files' = {}
    /\ processed_full_data' = <<>>
    /\ failed_creators' = <<>>
    /\ idx' = 0
    /\ pc' = "loop"
    /\ UNCHANGED <<coerced, inputs, flags, locals, visited, progress, final, shown>>

\* The names main passes to process_data.
CallArguments ==
    {"statistics_df", "creator_info_handler", "start_date", "end_date",
     "send_email", "email_user", "email_password"}

\* main: the start button is pressed.  The arguments of the call are
\* evaluated: a name that is not assigned yet raises (UnboundLocalError)
\* before process_data is entered, and main's handler writes the error.
StartButton ==
    /\ pc = "validated"
    /\ IF CallArguments \subseteq assigned
       THEN Start
       ELSE /\ Error("main", NaN)
            /\ pc' = "settings"
            /\ UNCHANGED <<coerced, inputs, flags, idx, locals, outputs, visited,
                           progress, final, failed_status>>

\* main: the e-mail settings section assigns send_email, email_user and
\* email_password; the script run ends.
EmailSettings ==
    /\ pc = "settings"
    /\ assigned' = assigned \cup {"send_email", "email_user", "email_password"}
    /\ pc' = "end"
    /\ UNCHANGED <<coerced, inputs, views_match, revenue_match, total_stats, idx,
                   locals, outputs, visited, progress, final, shown>>

\* The loop moves on to the next creator; the per-creator locals are dead.
NextCreator ==
    /\ idx' = idx + 1
    /\ pc' = "loop"
    /\ creator_data' = <<>>
    /\ totals' = NoTotals
    /\ filtered_data' = <<>>
    /\ html_content' = "none"

\* Faulty variant: the handler records the failure and leaves the loop.
HandleException_Abort ==
    /\ failed_creators' = Append(failed_creators, creator_id)
    /\ Error("processing", creator_id)
    /\ idx' = total_creators
    /\ pc' = "loop"
    /\ creator_data' = <<>>
    /\ totals' = NoTotals
    /\ filtered_data' = <<>>
    /\ html_content' = "none"

\* except Exception: failed_creators.append(creator_id); continue
HandleException ==
    /\ failed_creators' = Append(failed_creators, creator_id)
    /\ Error("processing", creator_id)
    /\ NextCreator

\* Faulty variant: the emptiness test is missing.
IsEmpty_Never(df) == FALSE

\* creator_data.empty
IsEmpty(df) == df = <<>>

\* Faulty variant: the progress is written before the position is counted.
progress_value_Before(i, n) == <<i, n>>

\* progress_text.write(f"{idx + 1}/{total_creators} ..."), as <<done, total>>
progress_value(i, n) == <<i + 1, n>>

\* The loop body is entered for the next creator of the Directory: progress
\* is written and the creator's rows are filtered out of input_df.  A creator
\* without rows is recorded as failed and the loop continues.
FilterCreator ==
    /\ pc = "loop"
    /\ idx < total_creators
    /\ visited' = Append(visited, creator_id)
    /\ progress' = progress_value(idx, total_creators)
    /\ LET rows == WhereId(input_df, creator_id) IN
       IF IsEmpty(rows)
       THEN /\ failed_creators' = Append(failed_creators, creator_id)
            /\ idx' = idx + 1
            /\ UNCHANGED <<pc, creator_data>>
       ELSE /\ creator_data' = rows
            /\ pc' = "aggregate"
            /\ UNCHANGED <<failed_creators, idx>>
    /\ UNCHANGED <<coerced, inputs, flags, totals, filtered_data, html_content,
                   reports_data, excel_files, processed_full_data, final, shown>>

\* Faulty variant: the views total is taken over the selected rows.
total_views_Top(df) ==
    clean_numeric_value(SumSeq(Column(CHOOSE top \in nlargest(df, TopN) : TRUE, "views")))

\* The creator's totals.
total_views(df) == clean_numeric_value(SumSeq(Column(df, "views")))
total_revenue_before(df) == clean_numeric_value(SumSeq(Column(df, "rev")))
\* Faulty variant: the product is rounded, not truncated.
total_revenue_after_Round(before, commission_rate) == Round(Times(before, commission_rate))

\* Faulty variant: the product is rounded up.
total_revenue_after_Ceil(before, commission_rate) == Ceil(Times(before, commission_rate))

\* int(total_revenue_before * commission_rate)
total_revenue_after(before, commission_rate) == Trunc(Times(before, commission_rate))

FilledNa(df) ==
    [i \in 1..Len(df) |->
        [df[i] EXCEPT !.views = fillna(df[i].views), !.rev = fillna(df[i].rev)]]

\* Faulty variant: the blank cells are filled in the uploaded frame itself.
Aggregate_InPlace ==
    /\ pc = "aggregate"
    /\ LET filled == FilledNa(creator_data)
           commission_rate == get_commission_rate(creator_info, creator_id)
       IN  IF commission_rate = NaN
           THEN /\ HandleException
                /\ UNCHANGED processed_full_data
           ELSE /\ creator_data' = filled
                /\ totals' = [views |-> total_views(filled),
                              before |-> total_revenue_before(filled),
                              after |-> total_revenue_after(
                                            total_revenue_before(filled), commission_rate)]
                /\ processed_full_data' = processed_full_data \o filled
                /\ pc' = "select"
                /\ UNCHANGED <<idx, filtered_data, html_content, failed_creators,
                               errors>>
    /\ input_df' = FilledNa(input_df)
    /\ UNCHANGED <<coerced, creator_info, send_email, email_user, flags, reports_data,
                   excel_files, visited, progress, final, failed_status>>

\* Faulty variant: the rows are carried forward before the totals are computed.
Aggregate_CarriedFirst ==
    /\ pc = "aggregate"
    /\ LET filled == FilledNa(creator_data)
           commission_rate == get_commission_rate(creator_info, creator_id)
       IN  IF commission_rate = NaN
           THEN /\ HandleException
                /\ processed_full_data' = processed_full_data \o filled
           ELSE /\ creator_data' = filled
                /\ totals' = [views |-> total_views(filled),
                              before |-> total_revenue_before(filled),
                              after |-> total_revenue_after(
                                            total_revenue_before(filled), commission_rate)]
                /\ processed_full_data' = processed_full_data \o filled
                /\ pc' = "select"
                /\ UNCHANGED <<idx, filtered_data, html_content, failed_creators,
                               errors>>
    /\ UNCHANGED <<coerced, inputs, flags, reports_data, excel_files, visited, progress, final,
                   failed_status>>

\* Blank cells are filled, the totals are computed and the creator's rows are
\* carried forward.  int() of a NaN product (a creator without a rate) raises
\* before the rows are carried forward.
Aggregate ==
    /\ pc = "aggregate"
    /\ LET filled == FilledNa(creator_data)
           commission_rate == get_commission_rate(creator_info, creator_id)
       IN  IF commission_rate = NaN
           THEN /\ HandleException
                /\ UNCHANGED processed_full_data
           ELSE /\ creator_data' = filled
                /\ totals' = [views |-> total_views(filled),
                              before |-> total_revenue_before(filled),
                              after |-> total_revenue_after(
                                            total_revenue_before(filled), commission_rate)]
                /\ processed_full_data' = processed_full_data \o filled
                /\ pc' = "select"
                /\ UNCHANGED <<idx, filtered_data, html_content, failed_creators,
                               errors>>
    /\ UNCHANGED <<coerced, inputs, flags, reports_data, excel_files, visited, progress, final,
                   failed_status>>

\* filtered_data after the commission column and the total row are added.
WithCommission(df, commission_rate) ==
    [k \in 1..Len(df) |->
        [idx |-> df[k].idx, id |-> df[k].id, title |-> df[k].title,
         views |-> df[k].views, rev |-> df[k].rev,
         after |-> Times(df[k].rev, commission_rate)]]

total_row(t) ==
    [idx |-> NaN, id |-> NaN, title |-> "total",
     views |-> t.views, rev |-> t.before, after |-> t.after]

\* filtered_data[:-1]
AllButLast(df) == SubSeq(df, 1, Len(df) - 1)

\* Faulty variant: the spreadsheet is written but not stored.
SelectAndExport_NotStored ==
    /\ pc = "select"
    /\ \E top \in nlargest(creator_data, TopN) :
          filtered_data' =
              WithCommission(top, get_commission_rate(creator_info, creator_id))
              \o <<total_row(totals)>>
    /\ UNCHANGED excel_files
    /\ pc' = "render"
    /\ UNCHANGED <<coerced, inputs, flags, idx, creator_data, totals, html_content,
                   reports_data, processed_full_data, failed_creators,
                   visited, progress, final, shown>>

\* The top rows are selected, the total row is appended and the frame is
\* written to the creator's spreadsheet.
SelectAndExport ==
    /\ pc = "select"
    /\ \E top \in nlargest(creator_data, TopN) :
          filtered_data' =
              WithCommission(top, get_commission_rate(creator_info, creator_id))
              \o <<total_row(totals)>>
    /\ excel_files' = Put(excel_files, creator_id, filtered_data')
    /\ pc' = "render"
    /\ UNCHANGED <<coerced, inputs, flags, idx, creator_data, totals, html_content,
                   reports_data, processed_full_data, failed_creators,
                   visited, progress, final, shown>>

\* Writing the spreadsheet raises: the per-creator handler takes over.
ExportRaises ==
    /\ pc = "select"
    /\ HandleException
    /\ UNCHANGED <<coerced, inputs, flags, reports_data, excel_files, processed_full_data,
                   visited, progress, final, failed_status>>

report_data ==
    [creatorName |-> creator_id,
     totalRevenueBefore |-> totals.before,
     totalRevenue |-> totals.after,
     totalViews |-> totals.views,
     videoData |-> create_video_data(AllButLast(filtered_data))]

\* generate_html_report returns the document, which is stored.
Render ==
    /\ pc = "render"
    /\ html_content' = "html"
    /\ reports_data' = Put(reports_data, creator_id, report_data)
    /\ pc' = "notify"
    /\ UNCHANGED <<coerced, inputs, flags, idx, creator_data, totals, filtered_data,
                   excel_files, processed_full_data, failed_creators,
                   visited, progress, final, shown>>

\* generate_html_report catches its exception and returns None: nothing is
\* stored and nothing is raised.
RenderFails ==
    /\ pc = "render"
    /\ html_content' = "None"
    /\ Error("render", creator_id)
    /\ pc' = "notify"
    /\ UNCHANGED <<coerced, inputs, flags, idx, creator_data, totals, filtered_data,
                   outputs, visited, progress, final, failed_status>>

\* if send_email and email_user and email_password
NotifyEnabled == send_email /\ email_user

\* No mail is attempted, or the creator has no address (a warning).
NotifySkipped ==
    /\ pc = "notify"
    /\ ~NotifyEnabled \/ get_email(creator_info, creator_id) = ""
    /\ NextCreator
    /\ UNCHANGED <<coerced, inputs, flags, outputs, visited, progress, final, shown>>

\* The report is attached and sent.
NotifySent ==
    /\ pc = "notify"
    /\ NotifyEnabled /\ get_email(creator_info, creator_id) # ""
    /\ html_content = "html"
    /\ NextCreator
    /\ UNCHANGED <<coerced, inputs, flags, outputs, visited, progress, final, shown>>

\* Faulty variant: the notification handler records the failure and raises
\* again, into the per-creator handler.
NotifyFails_Reraised ==
    /\ pc = "notify"
    /\ NotifyEnabled /\ get_email(creator_info, creator_id) # ""
    /\ errors' = errors \o <<[kind |-> "notification", creator |-> creator_id],
                              [kind |-> "processing", creator |-> creator_id]>>
    /\ failed_creators' = Append(Append(failed_creators, creator_id), creator_id)
    /\ NextCreator
    /\ UNCHANGED <<coerced, inputs, flags, reports_data, excel_files,
                   processed_full_data, visited, progress, final, failed_status>>

\* Faulty variant: a failed notification takes the report back.
NotifyFails_DropsReport ==
    /\ pc = "notify"
    /\ NotifyEnabled /\ get_email(creator_info, creator_id) # ""
    /\ Error("notification", creator_id)
    /\ failed_creators' = Append(failed_creators, creator_id)
    /\ reports_data' = {e \in reports_data : e.name # creator_id}
    /\ NextCreator
    /\ UNCHANGED <<coerced, inputs, flags, excel_files, processed_full_data,
                   visited, progress, final, failed_status>>

\* Faulty variant: a failed notification is reported but not recorded.
NotifyFails_Unrecorded ==
    /\ pc = "notify"
    /\ NotifyEnabled /\ get_email(creator_info, creator_id) # ""
    /\ Error("notification", creator_id)
    /\ NextCreator
    /\ UNCHANGED <<coerced, inputs, flags, outputs, visited, progress, final, failed_status>>

\* Attaching or sending raises (html_content.encode on None always does):
\* the inner handler records the creator as failed.
NotifyFails ==
    /\ pc = "notify"
    /\ NotifyEnabled /\ get_email(creator_info, creator_id) # ""
    /\ Error("notification", creator_id)
    /\ failed_creators' = Append(failed_creators, creator_id)
    /\ NextCreator
    /\ UNCHANGED <<coerced, inputs, flags, reports_data, excel_files, processed_full_data,
                   visited, progress, final, failed_status>>

\* show_validation_results: the totals of the data rows against the totals
\* of the carried-forward dataset, per metric.
compare_totals(original_df, processed_df) ==
    [shown |-> TRUE,
     views_match |-> WithinOne(total_views_data(original_df),
                               SumSeq(Column(processed_df, "views"))),
     revenue_match |-> WithinOne(total_revenue_data(original_df),
                                 SumSeq(Column(processed_df, "rev")))]

\* create_validation_excel / show_validation_results look up the rate of
\* every creator id of the data rows: a KeyError for an id that is not in
\* the Directory.
ValidationRaises ==
    \E c \in DOMAIN _calculate_creator_stats(data_rows(input_df)) :
        ~InDirectory(creator_info, c)

\* Faulty variant: an exception after the loop discards what was produced.
Finish_Discards ==
    /\ pc = "loop"
    /\ idx = total_creators
    /\ progress' = <<total_creators, total_creators>>
    /\ failed_status' = [written |-> TRUE, failed |-> failed_creators]
    /\ LET bundle == reports_data # {} /\ excel_files # {}
           show == processed_full_data # <<>>
       IN  /\ comparison_df' =
                IF show /\ ~(bundle /\ ValidationRaises)
                THEN compare_totals(input_df, processed_full_data)
                ELSE NoComparison
           /\ IF (bundle \/ show) /\ ValidationRaises
              THEN /\ Error("overall", NaN)
                   /\ reports_data' = {}
                   /\ excel_files' = {}
                   /\ UNCHANGED <<validation, zip_data>>
              ELSE /\ UNCHANGED <<errors, reports_data, excel_files>>
                   /\ zip_data' =
                        IF bundle
                        THEN [made |-> TRUE, reports |-> Keys(reports_data),
                              excel |-> Keys(excel_files), validation |-> TRUE]
                        ELSE NoZip
                   /\ validation' =
                        IF bundle \/ show
                        THEN [made |-> TRUE,
                              rows |-> compare_creator_stats(input_df, processed_full_data)]
                        ELSE NoValidation
    /\ pc' = "done"
    /\ UNCHANGED <<coerced, inputs, flags, idx, locals, processed_full_data, failed_creators,
                   visited>>

\* After the loop: the final progress is written, the bundle is built when
\* there are reports and spreadsheets, and the reconciliation is shown when
\* rows were carried forward.  An exception is reported by the outer handler.
Finish ==
    /\ pc = "loop"
    /\ idx = total_creators
    /\ progress' = <<total_creators, total_creators>>
    /\ failed_status' = [written |-> TRUE, failed |-> failed_creators]
    /\ LET bundle == reports_data # {} /\ excel_files # {}
           show == processed_full_data # <<>>
       IN  /\ comparison_df' =
                IF show /\ ~(bundle /\ ValidationRaises)
                THEN compare_totals(input_df, processed_full_data)
                ELSE NoComparison
           /\ IF (bundle \/ show) /\ ValidationRaises
              THEN /\ Error("overall", NaN)
                   /\ UNCHANGED <<validation, zip_data>>
              ELSE /\ UNCHANGED errors
                   /\ zip_data' =
                        IF bundle
                        THEN [made |-> TRUE, reports |-> Keys(reports_data),
                              excel |-> Keys(excel_files), validation |-> TRUE]
                        ELSE NoZip
                   /\ validation' =
                        IF bundle \/ show
                        THEN [made |-> TRUE,
                              rows |-> compare_creator_stats(input_df, processed_full_data)]
                        ELSE NoValidation
    /\ pc' = "done"
    /\ UNCHANGED <<coerced, inputs, flags, idx, locals, outputs, visited>>

Next ==
    \/ Validate
    \/ StartButton
    \/ EmailSettings
    \/ Start
    \/ FilterCreator
    \/ Aggregate
    \/ SelectAndExport
    \/ ExportRaises
    \/ Render
    \/ RenderFails
    \/ NotifySkipped
    \/ NotifySent
    \/ NotifyFails
    \/ Finish

Spec == Init /\ [][Next]_vars

\* ----------------------------------------- clean_numeric_value alone

Tokens == Digits \cup {",", ".", "-", " ", "x", "inf"}

\* The arguments of the calls checked: missing, finite numbers in steps of
\* 1/Scale, both infinities, strings of up to MaxLen tokens, another object.
Objects ==
    {Object("nan", 0, <<>>), Object("object", 0, <<>>),
     Object("inf", 1, <<>>), Object("inf", -1, <<>>)}
    \cup {Object("float", k * (One \div Scale), <<>>) :
             k \in (-(MaxWhole * Scale))..(MaxWhole * Scale)}
    \cup {Object("str", 0, text) : text \in SeqsUpTo(Tokens, MaxLen)}

InitClean ==
    /\ argument \in Objects
    /\ result = NoResult
    /\ input_df = <<SummaryRow(NaN, 0, 0)>>
    /\ creator_info = Directory(FALSE, 0, 0)
    /\ send_email = FALSE
    /\ email_user = FALSE
    /\ pc = "upload"
    /\ views_match = FALSE
    /\ revenue_match = FALSE
    /\ total_stats = NoStats
    /\ idx = 0
    /\ creator_data = <<>>
    /\ totals = NoTotals
    /\ filtered_data = <<>>
    /\ html_content = "none"
    /\ reports_data = {}
    /\ excel_files = {}
    /\ processed_full_data = <<>>
    /\ failed_creators = <<>>
    /\ visited = <<>>
    /\ progress = <<0, 0>>
    /\ validation = NoValidation
    /\ zip_data = NoZip
    /\ comparison_df = NoComparison
    /\ errors = <<>>
    /\ failed_status = NotWritten
    /\ assigned = {}

\* clean_numeric_value(argument) is called.
Clean ==
    /\ ~result.called
    /\ result' = clean_numeric_value_call(argument)
    /\ UNCHANGED <<argument, inputs, pc, flags, idx, locals, outputs, visited,
                   progress, final, shown>>

SpecClean == InitClean /\ [][Clean]_vars

\* =================================================================
\* Properties
\* =================================================================

Range(s) == {s[i] : i \in DOMAIN s}
Count(s, x) == Cardinality({i \in DOMAIN s : s[i] = x})
Last(s) == s[Len(s)]
DirectoryIds == Range(get_all_creator_ids(creator_info))
RateOf(c) == get_commission_rate(creator_info, c)

\* The sum of column col over the rows from..Len(df) of df that satisfy the
\* creator filter (c = NaN: every row), blank cells counting as 0.
RECURSIVE SumRows(_, _, _, _)
SumRows(df, col, c, from) ==
    IF from > Len(df) THEN 0
    ELSE (IF (c = NaN \/ df[from].id = c) /\ df[from][col] # NaN
          THEN df[from][col] ELSE 0)
         + SumRows(df, col, c, from + 1)

Declared(col) == input_df[1][col]
Computed(col) == SumRows(input_df, col, NaN, 2)

\* C1: once main has validated the upload, each dataset-level match flag is
\* true exactly when the declared value of the first row and the sum over the
\* rows after the first differ by strictly less than 1 (a blank declared
\* value never matches); a difference of exactly 1 gives false.
C1_DatasetReconciliation ==
    pc # "upload" =>
        /\ views_match <=>
             (Declared("views") # NaN /\ Abs(Declared("views") - Computed("views")) < One)
        /\ revenue_match <=>
             (Declared("rev") # NaN /\ Abs(Declared("rev") - Computed("rev")) < One)
        /\ (Declared("views") # NaN /\ Abs(Declared("views") - Computed("views")) = One)
             => ~views_match

\* Declared views one below the computed views are a mismatch, while a
\* declared revenue that is half a unit off still matches.
C1_Witness ==
    /\ pc = "validated"
    /\ Declared("views") # NaN /\ Declared("views") = Computed("views") - One
    /\ ~views_match
    /\ Declared("rev") # NaN /\ Declared("rev") # Computed("rev")
    /\ revenue_match

\* The total row a creator's spreadsheet ends with, and the exact product
\* gross revenue * commission rate it was derived from.
TotalOf(e) == Last(e.content)
ExactNet(e) == (TotalOf(e).rev * RateOf(e.name)) \div RateDen

\* C2 as stated: the net revenue of every creator that got as far as its
\* totals equals round(grossRevenue * commissionRate).
C2_NetIsRounded ==
    \A e \in excel_files : TotalOf(e).after = Round(ExactNet(e))

\* C2 as amended: the net revenue is the product truncated; it equals
\* round(grossRevenue * commissionRate) when the fractional part of the
\* product is below 1/2, or is 1/2 with an even whole part, and is one less
\* than the rounded product otherwise.
C2_NetIsRoundedDown ==
    \A e \in excel_files :
        LET x == ExactNet(e)
            r == x % One
        IN  IF 2 * r < One \/ (2 * r = One /\ (x \div One) % 2 = 0)
            THEN TotalOf(e).after = Round(x)
            ELSE TotalOf(e).after = Round(x) - One

\* A creator whose product rounds up: the net revenue is one below it.
C2_Witness ==
    \E e \in excel_files :
        /\ Round(ExactNet(e)) = TotalOf(e).after + One
        /\ TotalOf(e).rev > 0

\* C3: the net revenue of a creator is the whole number n with
\* n <= gross * rate < n + 1 (truncation), is not above the gross revenue,
\* and is what the report payload carries: it is derived from the gross
\* total and the rate the Directory holds in this run.
C3_NetIsTruncated ==
    \A e \in excel_files :
        LET t == TotalOf(e)
            p == RateOf(e.name)
        IN  /\ t.after % One = 0
            /\ t.after * RateDen <= t.rev * p
            /\ t.rev * p < (t.after + One) * RateDen
            /\ t.after <= t.rev
            /\ e.name \in Keys(reports_data) =>
                  /\ Get(reports_data, e.name).totalRevenue = t.after
                  /\ Get(reports_data, e.name).totalRevenueBefore = t.rev

\* A reported creator whose product has a fractional part that was cut off.
C3_Witness ==
    /\ pc = "done"
    /\ \E e \in excel_files :
          /\ e.name \in Keys(reports_data)
          /\ ExactNet(e) % One # 0
          /\ TotalOf(e).after < ExactNet(e)
          /\ TotalOf(e).after > 0

NoRows(c) == \A i \in 1..Len(input_df) : input_df[i].id # c

\* C4: a Directory creator without a row in the dataset never has an entry
\* in the reports map or the spreadsheets map, and when process_data ends it
\* is in the failed-creator list exactly once.
C4_NoDataCreator ==
    \A c \in DirectoryIds :
        NoRows(c) =>
            /\ c \notin Keys(reports_data)
            /\ c \notin Keys(excel_files)
            /\ Count(failed_creators, c) <= 1
            /\ pc = "done" => Count(failed_creators, c) = 1

\* The run ended with a report for one creator and a creator without rows
\* recorded as failed.
C4_Witness ==
    /\ pc = "done"
    /\ reports_data # {}
    /\ \E c \in DirectoryIds : NoRows(c) /\ Count(failed_creators, c) = 1

\* C5: when process_data ends, no creator has a produced report and is in
\* the failed-creator list as well.
C5_ReportedOrFailed ==
    pc = "done" => Keys(reports_data) \cap Range(failed_creators) = {}

\* C6: the loop body is entered for the creators of the Directory in
\* Directory order, each one once (no creator is skipped, repeated or
\* retried), and whatever failed on the way, process_data ends having
\* entered it for every creator.
C6_FailureIsolation ==
    LET ids == get_all_creator_ids(creator_info) IN
    /\ Len(visited) <= Len(ids)
    /\ \A i \in 1..Len(visited) : visited[i] = ids[i]
    /\ Range(failed_creators) \subseteq Range(visited)
    /\ pc = "done" => visited = ids

\* The first creator of the Directory had rows and failed while being
\* processed, and the creator after it still got its report.
C6_Witness ==
    LET ids == get_all_creator_ids(creator_info) IN
    /\ pc = "done"
    /\ ~NoRows(ids[1])
    /\ failed_creators # <<>> /\ failed_creators[1] = ids[1]
    /\ ids[1] \notin Keys(reports_data)
    /\ ids[2] \in Keys(reports_data)

\* C7: when process_data ends, every Directory creator is completed (it has
\* a report and a spreadsheet) or is in the failed-creator list.
C7_TerminalState ==
    pc = "done" =>
        \A c \in DirectoryIds :
            \/ c \in Keys(reports_data) /\ c \in Keys(excel_files)
            \/ c \in Range(failed_creators)

Floor(x) == x - (x % One)
LineItems(e) == SubSeq(e.content, 1, Len(e.content) - 1)
RowsOf(c) == {i \in 1..Len(input_df) : input_df[i].id = c}

\* C8: a creator's selection has at most TopN line items before its total
\* row, and the total row carries the totals of all the creator's records
\* (the rows process_data matched for it), whatever was selected: the views
\* and the gross revenue summed over all of them, and the net revenue
\* derived from that gross revenue.
C8_TotalOverFullSet ==
    \A e \in excel_files :
        LET t == TotalOf(e) IN
        /\ Len(LineItems(e)) <= TopN
        /\ \A k \in 1..Len(LineItems(e)) : LineItems(e)[k].title # "total"
        /\ t.title = "total"
        /\ t.views = Floor(SumRows(input_df, "views", e.name, 1))
        /\ t.rev = Floor(SumRows(input_df, "rev", e.name, 1))
        /\ t.after = Floor((t.rev * RateOf(e.name)) \div RateDen)

\* A creator with more than TopN records: TopN line items are kept and the
\* total views exceed the views of the line items.
C8_Witness ==
    \E e \in excel_files :
        /\ Cardinality(RowsOf(e.name)) > TopN
        /\ Len(LineItems(e)) = TopN
        /\ SumRows(LineItems(e), "views", NaN, 1) < TotalOf(e).views

\* C9: the line items of a selection are in descending order of views,
\* records of equal views in their input order, and no record left out
\* comes before a selected one in that order.
C9_StableTop ==
    \A e \in excel_files :
        LET items == LineItems(e) IN
        /\ \A i, j \in 1..Len(items) :
              i < j =>
                 \/ items[i].views > items[j].views
                 \/ items[i].views = items[j].views /\ items[i].idx < items[j].idx
        /\ \A r \in RowsOf(e.name) :
              (\A k \in 1..Len(items) : items[k].idx # input_df[r].idx) =>
                 \A k \in 1..Len(items) :
                     \/ items[k].views > fillna(input_df[r].views)
                     \/ items[k].views = fillna(input_df[r].views)
                        /\ items[k].idx < input_df[r].idx

\* C10: in the creator comparison, a creator whose views (gross revenue) in
\* the data rows and in the carried-forward dataset differ by 1 or more has
\* a false views-match (revenue-match) flag.
C10_DetectsLoss ==
    validation.made =>
        \A c \in DOMAIN validation.rows :
            /\ Abs(SumRows(input_df, "views", c, 2)
                   - SumRows(processed_full_data, "views", c, 1)) >= One
                 => ~validation.rows[c].views_match
            /\ Abs(SumRows(input_df, "rev", c, 2)
                   - SumRows(processed_full_data, "rev", c, 1)) >= One
                 => ~validation.rows[c].revenue_match

\* The creator ids that occur in the rows from..Len(df) of df.
IdsIn(df, from) == {df[i].id : i \in from..Len(df)}

\* df with a copy of its row i inserted after position at.
WithDuplicate(df, i, at) == SubSeq(df, 1, at) \o <<df[i]>> \o SubSeq(df, at + 1, Len(df))

\* C11: the creator count of the validator is the number of distinct creator
\* ids among the rows after the first; a duplicate of a data row, inserted
\* first, next to the row or last, leaves the count as it is; and the
\* creator-count comparison of the original with the processed dataset
\* matches exactly when the two have as many distinct creator ids.
C11_DistinctCreators ==
    /\ pc # "upload" => total_stats.creator_count = Cardinality(IdsIn(input_df, 2))
    /\ pc = "validated" =>
          \A i \in 2..Len(input_df) : \A at \in {1, i, Len(input_df)} :
              creator_count(data_rows(WithDuplicate(input_df, i, at)))
                 = total_stats.creator_count
    /\ pc = "done" =>
          LET comparison == compare_with_processed(input_df, processed_full_data) IN
          /\ comparison.original = Cardinality(IdsIn(input_df, 2))
          /\ comparison.processed = Cardinality(IdsIn(processed_full_data, 1))
          /\ comparison.match <=>
                Cardinality(IdsIn(input_df, 2)) = Cardinality(IdsIn(processed_full_data, 1))

\* One creator has two data rows, so there are fewer creators than rows, and
\* the rows of an unlisted creator were not processed: the counts differ.
C11_Witness ==
    /\ pc = "done"
    /\ total_stats.creator_count = 2
    /\ Len(input_df) = 4
    /\ Cardinality(IdsIn(processed_full_data, 1)) = 1
    /\ ~compare_with_processed(input_df, processed_full_data).match

\* C12: the first row of the Dataset is in no creator's aggregate, whatever
\* creator id it carries: the totals process_data computes for a creator are
\* the sums over the creator's rows after the first, and so are the totals
\* of the validator.
C12_SummaryNeverAggregated ==
    /\ pc # "upload" =>
          /\ total_stats.total_views_data = SumRows(input_df, "views", NaN, 2)
          /\ total_stats.total_revenue_data = SumRows(input_df, "rev", NaN, 2)
    /\ \A e \in excel_files :
          /\ TotalOf(e).views = Floor(SumRows(input_df, "views", e.name, 2))
          /\ TotalOf(e).rev = Floor(SumRows(input_df, "rev", e.name, 2))

\* C13: while the creator at position idx is processed the progress written
\* is (idx + 1)/N; every progress written in the loop is one position above
\* the progress before it, so the values strictly increase; and when
\* process_data has ended the progress is N/N, whatever failed.
C13_Progress ==
    /\ [](pc \in {"aggregate", "select", "render", "notify"} =>
             progress = <<idx + 1, total_creators>>)
    /\ [](pc = "done" => progress = <<total_creators, total_creators>>)
    /\ [][visited' # visited =>
             /\ progress'[1] = Len(visited')
             /\ progress'[1] > progress[1]
             /\ progress'[2] = total_creators
             /\ progress'[1] <= progress'[2]]_vars

\* The run has ended with a failed creator and the progress is N/N.
C13_Witness ==
    /\ pc = "done"
    /\ failed_creators # <<>>
    /\ Len(visited) = NumCreators
    /\ progress = <<NumCreators, NumCreators>>

\* The creators an error message of the given kind was written for.
ErrorsOf(kind) == {errors[i].creator : i \in {j \in DOMAIN errors : errors[j].kind = kind}}

\* C14: a creator the loop found no rows for, a creator whose processing
\* raised and a creator whose notification raised are all in the one failed
\* list, and that list is what is written when the loop has ended.
C14_FailureClasses ==
    /\ \A k \in 1..Len(visited) :
          (NoRows(visited[k]) /\ (k <= idx \/ pc = "done"))
              => visited[k] \in Range(failed_creators)
    /\ ErrorsOf("processing") \subseteq Range(failed_creators)
    /\ ErrorsOf("notification") \subseteq Range(failed_creators)
    /\ pc = "done" =>
          /\ failed_status.written
          /\ failed_status.failed = failed_creators

\* One run in which a creator without rows and a creator whose notification
\* raised are both in the failed list that is written.
C14_Witness ==
    /\ pc = "done"
    /\ \E c \in Range(failed_status.failed) : NoRows(c)
    /\ \E c \in Range(failed_status.failed) : c \in ErrorsOf("notification")

\* C15: a creator whose report was generated and whose notification then
\* raised keeps its report and its spreadsheet in the output maps, up to and
\* including the maps process_data returns.
C15_NotificationIndependent ==
    \A c \in ErrorsOf("notification") \ ErrorsOf("render") :
        /\ c \in Keys(reports_data)
        /\ c \in Keys(excel_files)
        /\ Get(reports_data, c).creatorName = c
        /\ TotalOf([name |-> c, content |-> Get(excel_files, c)]).title = "total"

\* process_data has returned; a creator's notification raised and its
\* report is in the map.
C15_Witness ==
    /\ pc = "done"
    /\ \E c \in ErrorsOf("notification") :
          c \in Keys(reports_data) /\ c \in Range(failed_creators)

\* C16: when the step after the loop (the bundle or the reconciliation)
\* raises, process_data ends with the report map and the spreadsheet map
\* exactly as the loop left them.
C16_FinalFailureKeepsOutputs ==
    [][(pc' = "done" /\ "overall" \in {errors'[i].kind : i \in DOMAIN errors'}) =>
          /\ reports_data' = reports_data
          /\ excel_files' = excel_files]_vars

\* The step after the loop raised and process_data returned a report and a
\* spreadsheet; no bundle was made.
C16_Witness ==
    /\ pc = "done"
    /\ \E i \in DOMAIN errors : errors[i].kind = "overall"
    /\ reports_data # {}
    /\ excel_files # {}
    /\ ~zip_data.made

\* C17: when process_data has ended and at least one report or spreadsheet
\* was produced, a bundle was made, and it contains every report, every
\* spreadsheet and the reconciliation export.
C17_BundleHoldsEverything ==
    (pc = "done" /\ (reports_data # {} \/ excel_files # {})) =>
        /\ zip_data.made
        /\ zip_data.reports = Keys(reports_data)
        /\ zip_data.excel = Keys(excel_files)
        /\ zip_data.validation

\* df with other views and gross revenue declared in its first row.
Redeclared(df, v, r) == <<[df[1] EXCEPT !.views = v, !.rev = r]>> \o Tail(df)

DeclaredViews == {NaN} \cup {k * One : k \in 0..MaxDeclared}
DeclaredRevs == {NaN} \cup {k * (One \div Scale) : k \in 0..(MaxDeclared * Scale)}

\* C18: what process_data produces does not depend on the views and the
\* gross revenue declared in the first row: under any other declared values
\* the same creators are without rows, and the totals computed for the
\* current creator, which go into its spreadsheet and its report, are the
\* same.
C18_ReconciliationIsDiagnostic ==
    \A v \in DeclaredViews : \A r \in DeclaredRevs :
        LET other == Redeclared(input_df, v, r) IN
        /\ pc = "validated" =>
              \A c \in DirectoryIds :
                  IsEmpty(WhereId(other, c)) <=> IsEmpty(WhereId(input_df, c))
        /\ pc = "select" =>
              LET filled == FilledNa(WhereId(other, creator_id)) IN
              /\ totals.views = total_views(filled)
              /\ totals.before = total_revenue_before(filled)
              /\ totals.after = total_revenue_after(total_revenue_before(filled),
                                                    RateOf(creator_id))

\* C19: the totals of a Directory creator without a commission rate are
\* computed with rate 0, without raising: the step that aggregates its rows
\* goes on to the selection with net revenue 0 and leaves the failed list
\* and the error messages as they are, and the net revenue total of the
\* validator counts the creator as 0.
C19_MissingRateIsZero ==
    /\ [](pc # "upload" =>
             total_stats.total_revenue_after # NaN)
    /\ [][(pc = "aggregate" /\ RateOf(creator_id) = NaN) =>
             /\ pc' = "select"
             /\ totals'.after = 0
             /\ failed_creators' = failed_creators
             /\ errors' = errors]_vars

\* C20: the line items of a report payload are titled records of the
\* creator: no record without a title and no total row is among them, while
\* the payload's total views and gross revenue are the sums over all the
\* rows matched for the creator, the untitled ones included.
C20_UntitledCountedNotListed ==
    \A p \in reports_data :
        LET items == p.content.videoData IN
        /\ \A k \in 1..Len(items) :
              /\ items[k].title \notin {"nan", "total"}
              /\ \E i \in RowsOf(p.name) :
                    input_df[i].idx = items[k].idx /\ input_df[i].title # "nan"
        /\ \A i \in RowsOf(p.name) :
              input_df[i].title = "nan" =>
                 \A k \in 1..Len(items) : items[k].idx # input_df[i].idx
        /\ p.content.totalViews = Floor(SumRows(input_df, "views", p.name, 1))
        /\ p.content.totalRevenueBefore = Floor(SumRows(input_df, "rev", p.name, 1))

\* A creator with a titled record and an untitled data row that has views,
\* all its rows within the selection: the line items add up to less than the
\* total views.
C20_Witness ==
    \E p \in reports_data :
        /\ Cardinality(RowsOf(p.name)) <= TopN
        /\ \E i \in RowsOf(p.name) :
              i > 1 /\ input_df[i].title = "nan" /\ input_df[i].views > 0
        /\ p.content.videoData # <<>>
        /\ SumRows(p.content.videoData, "views", NaN, 1) < p.content.totalViews

\* The spreadsheet entry of creator c.
ExcelOf(c) == [name |-> c, content |-> Get(excel_files, c)]

\* C21: the spreadsheet of a creator with a report holds, before its last
\* row, as many line items as the report payload, the k-th of them being the
\* same record under the same title as the k-th line item of the payload,
\* and its last row is the total row.
C21_ExportMatchesPayload ==
    \A p \in reports_data :
        LET items == p.content.videoData
            lines == LineItems(ExcelOf(p.name))
        IN  /\ Len(lines) = Len(items)
            /\ \A k \in 1..Len(items) :
                  /\ lines[k].idx = items[k].idx
                  /\ lines[k].title = items[k].title
            /\ TotalOf(ExcelOf(p.name)).title = "total"

\* C22: a call of clean_numeric_value returns a whole number and never
\* raises: 0 for a missing value, 0 for a value that does not parse, the
\* number truncated toward zero for a finite number, and for a string what
\* its text without the commas parses to.
C22_CoercionIsTotal ==
    result.called =>
        /\ result.raised = "none"
        /\ result.value % One = 0
        /\ argument.kind = "nan" => result.value = 0
        /\ argument.kind = "float" =>
              /\ Abs(result.value) <= Abs(argument.num)
              /\ Abs(argument.num) - Abs(result.value) < One
              /\ result.value * argument.num >= 0
        /\ argument.kind = "str" =>
              result.value = clean_numeric_value_call(
                                 Object("str", 0, replace_commas(argument.text))).value

\* The sum over the rows of df with creator id c (c = NaN: every row) of the
\* coerced cells of column col.
RECURSIVE SumCoerced(_, _, _, _)
SumCoerced(df, col, c, from) ==
    IF from > Len(df) THEN 0
    ELSE (IF c = NaN \/ df[from].id = c
          THEN clean_numeric_value(df[from][col]) ELSE 0)
         + SumCoerced(df, col, c, from + 1)

\* C23: a creator's total views and gross revenue are the sums of the
\* coerced cells of the rows matched for it, and for a creator with at most
\* TopN rows, all titled, they are the sums of the views and the
\* revenueBefore of the line items of its report payload.
C23_CoerceThenSum ==
    /\ \A e \in excel_files :
          /\ TotalOf(e).views = SumCoerced(input_df, "views", e.name, 1)
          /\ TotalOf(e).rev = SumCoerced(input_df, "rev", e.name, 1)
    /\ \A p \in reports_data :
          (/\ Cardinality(RowsOf(p.name)) <= TopN
           /\ \A i \in RowsOf(p.name) : input_df[i].title # "nan") =>
              /\ p.content.totalViews
                    = SumRows(p.content.videoData, "views", NaN, 1)
              /\ p.content.totalRevenueBefore
                    = SumRows(p.content.videoData, "revenueBefore", NaN, 1)

\* C24: no step of a batch run changes the Dataset or the Directory: when
\* process_data has returned, with or without failed creators, both hold
\* the rows and values they held when it was called.
C24_InputsAreReadOnly ==
    [][/\ input_df' = input_df
       /\ creator_info' = creator_info]_vars

\* process_data has returned with a failed creator; a blank cell of the
\* Dataset was filled in the rows carried forward and is still blank in the
\* Dataset.
C24_Witness ==
    /\ pc = "done"
    /\ failed_creators # <<>>
    /\ \E i \in 2..Len(input_df) : \E k \in 1..Len(processed_full_data) :
          /\ processed_full_data[k].idx = input_df[i].idx
          /\ input_df[i].views = NaN
          /\ processed_full_data[k].views = 0

\* C25: once the upload is validated and the start button is pressed,
\* process_data is invoked: every name passed to it is assigned when the
\* call is reached, and the step that follows the validated upload enters
\* process_data.
C25_ProcessDataInvoked ==
    /\ [](pc = "validated" => CallArguments \subseteq assigned)
    /\ [][pc = "validated" => pc' = "loop"]_vars

\* C26: at every point of a batch run every creator with an entry in the
\* reports map has an entry in the spreadsheets map.
C26_ReportImpliesSpreadsheet ==
    Keys(reports_data) \subseteq Keys(excel_files)

\* process_data has returned two spreadsheets and one report: one creator
\* has a spreadsheet and no report.
C26_Witness ==
    /\ pc = "done"
    /\ Cardinality(Keys(reports_data)) = 1
    /\ Cardinality(Keys(excel_files)) = 2

\* The position of creator c in the Directory.
DirectoryIndex(c) ==
    CHOOSE i \in 1..Len(creator_info) : creator_info[i].id = c

\* C27: no creator id is in the failed list twice, and the entries of the
\* failed list are in the order of the Directory.
C27_FailedOnceInOrder ==
    /\ \A i, j \in 1..Len(failed_creators) :
          i < j => /\ failed_creators[i] # failed_creators[j]
                   /\ DirectoryIndex(failed_creators[i])
                         < DirectoryIndex(failed_creators[j])
    /\ Range(failed_creators) \subseteq DirectoryIds

\* Every creator of a Directory that lists the creators in descending order
\* of their ids has failed, one of them through its notification.
C27_Witness ==
    /\ pc = "done"
    /\ Len(failed_creators) = NumCreators
    /\ creator_info[1].id = NumCreators
    /\ failed_creators[1] = NumCreators
    /\ ErrorsOf("notification") # {}

\* The k-th visited creator has had its rows carried forward: it has rows,
\* its totals were computed without raising, and the loop is past that step.
Passed(k) ==
    /\ ~NoRows(visited[k])
    /\ RateOf(visited[k]) # NaN
    /\ (k <= idx \/ pc \in {"select", "render", "notify"})

\* The rows of the creators among the first k visited that were carried
\* forward, blank cells filled, in the order of the visits.
RECURSIVE CarriedRows(_)
CarriedRows(k) ==
    IF k = 0 THEN <<>>
    ELSE CarriedRows(k - 1)
         \o (IF Passed(k) THEN FilledNa(WhereId(input_df, visited[k])) ELSE <<>>)

CarriedIds == {visited[k] : k \in {j \in 1..Len(visited) : Passed(j)}}

\* The values of the data rows that were not carried forward, and those of a
\* first row that was.
Dropped(col) ==
    SumSeq([i \in 1..(Len(input_df) - 1) |->
               IF input_df[i + 1].id \in CarriedIds THEN 0 ELSE input_df[i + 1][col]])
FirstRowCarried(col) ==
    IF input_df[1].id \in CarriedIds THEN fillna(input_df[1][col]) ELSE 0

\* The carried-forward dataset holds exactly the rows matched for the
\* Directory creators that had rows and whose totals were computed, later
\* failures or not, and no row of a creator that is not in the Directory.
ExactlyCarried ==
    /\ processed_full_data = CarriedRows(Len(visited))
    /\ \A k \in 1..Len(processed_full_data) :
          processed_full_data[k].id \in DirectoryIds

\* C28 as stated: the carried-forward dataset is as above, and when the
\* dataset-level comparison of original and processed totals matches on
\* both metrics, every data row belongs to a creator that was carried
\* forward.
C28_MatchOnlyIfAllCarried ==
    /\ ExactlyCarried
    /\ (comparison_df.shown /\ comparison_df.views_match
                            /\ comparison_df.revenue_match) =>
          \A i \in 2..Len(input_df) : input_df[i].id \in CarriedIds

\* C28, amended: the carried-forward dataset is as above, so that each
\* metric of the dataset-level comparison matches exactly when the values of
\* the data rows not carried forward and the value of a carried first row
\* differ by less than 1.
C28_CarriedForward ==
    /\ ExactlyCarried
    /\ comparison_df.shown =>
          /\ comparison_df.views_match <=>
                Abs(Dropped("views") - FirstRowCarried("views")) < One
          /\ comparison_df.revenue_match <=>
                Abs(Dropped("rev") - FirstRowCarried("rev")) < One

\* A creator that failed after its totals was carried forward, a data row
\* of a creator outside the Directory was not, and both metrics match.
C28_Witness ==
    /\ comparison_df.shown
    /\ comparison_df.views_match /\ comparison_df.revenue_match
    /\ \E i \in 2..Len(input_df) : input_df[i].id \notin DirectoryIds
    /\ \E c \in Range(failed_creators) : c \in CarriedIds

====
